---- MODULE Spec2Model ----
(***************************************************************************)
(* CAT.attachment.distribution: distribute_idx() and the lazy generator    *)
(* uniform_idx() with its helpers _min_or_max() and _min_and_max().        *)
(*                                                                         *)
(* One behaviour of the model is one call of distribute_idx(), or one      *)
(* direct use of the generator uniform_idx() by a caller.  Every next() on *)
(* the generator is one action.  Arrays are functions over 0..n-1, as in   *)
(* the source.  Floats are fixed-point integers (thousandths); NaN is a    *)
(* distinguished value that every arithmetic operation propagates.         *)
(***************************************************************************)
EXTENDS Integers, Sequences, FiniteSets, TLC

\* Largest number of candidate indices (rows of the distance matrix).
MaxN == 3

\* Largest fixed integer cluster_size.
MaxCluster == 2

\* Largest number of points of an arbitrary matrix in the selection without
\* randomness, and of an evenly spaced line.
MaxGreedyN == 4
MaxLine == 8
\* The largest number i of a key base_key + str(i) in a mapping.
MaxKeys == 4
\* The largest number of atoms of a molecule opened with AsArray.
MaxAtoms == 3
\* The largest number of rows of a DataFrame passed to WorkFlow.to_db.
MaxRows == 2

\* np.nan: the "unavailable" marker of the diagonal and of yielded indices.
NaN == -1

VARIABLES
    entry,          \* the public function the caller uses
    n,              \* len(idx), the size of the n x n distance matrix
    idx,            \* the contents of the caller's idx buffer
    idx_kind,       \* what kind of object the caller passed as idx
    mode,           \* distribute_idx(mode=...)
    f,              \* distribute_idx(f=...), a fraction <<num, den>>
    operation,      \* uniform_idx(operation=...)
    start,          \* uniform_idx(start=...), the argument as passed
    cluster_size,   \* uniform_idx(cluster_size=...)
    randomness,     \* uniform_idx(randomness=...)
    pc,             \* position of the caller / of distribute_idx
    idx_ar,         \* distribute_idx: the converted idx array (object and buffer)
    stop,           \* distribute_idx: the number of indices to take
    dist,           \* the caller's distance matrix argument of uniform_idx
    gen_pc,         \* position of the generator uniform_idx
    dist_sqr,       \* uniform_idx: the weighted matrix, NaN on the diagonal
    arg_random,     \* uniform_idx: arg_func was wrapped by _parse_randomness
    dist_1d_sqr,    \* the accumulator of the completed selections
    dist_cluster,   \* _min_and_max: the accumulator of the cluster in progress
    bool_ar,        \* _min_and_max: bool_ar[1:], TRUE where a new cluster starts
    loop_k,         \* number of finished iterations of the helper's for loop
    yielded,        \* the values the generator has yielded so far
    raised,         \* the exception that ended the call, "none" if none
    raised_by,      \* the argument the exception is about
    ret,            \* the array distribute_idx returned
    ret_shared,     \* ret uses the buffer of the caller's idx
    written,        \* the caller has written to the returned array
    first_call,     \* what an earlier call with a smaller f returned, if any
    parse_pc,       \* position of _parse_cluster_size when it is run on its own
    cycle_at,       \* cycle_accumulate: the next element of the repeated sequence
    cumsum,         \* cycle_accumulate: the running sum, its next value
    taken,          \* np.fromiter: the number of values stored so far
    bool_indices,   \* np.fromiter: the values stored so far
    mapping,        \* pop_and_concatenate: the mapping argument (mutated in place)
    mapping_in,     \* pop_and_concatenate: the mapping as it was passed
    base_key,       \* pop_and_concatenate(base_key=...)
    filter_func,    \* pop_and_concatenate(filter_func=...)
    pop_i,          \* pop_and_concatenate: i
    pop_ret,        \* pop_and_concatenate: ret, and the tuple returned
    pop_pc,         \* position of pop_and_concatenate
    mol_kind,       \* AsArray(mol=...): "Molecule" or "list" (of atoms)
    delete_atom_arg, \* AsArray(delete_atom=...)
    delete_atom,    \* AsArray.delete_atom
    mol_dict,       \* the instance attribute 'delete_atom' of mol, "none" if unset
    atoms,          \* the atoms of mol
    as_pc,          \* position of the caller of AsArray
    as_raised,      \* the exception of the last call on AsArray or mol
    warned,         \* a warning was issued
    df,             \* to_db(df=...): the column ('opt', '') per row (mutated in place)
    df_in,          \* to_db: the column as it was passed
    status,         \* to_db(status=...)
    index,          \* to_db(index=...): the rows selected
    job_recipe,     \* to_db(job_recipe=...) is not None
    columns,        \* to_db(columns=...)
    write,          \* WorkFlow.write and WorkFlow.keep_files
    exported,       \* what update_csv() was given
    to_db_pc        \* position of to_db

vars == <<entry, n, idx, idx_kind, mode, f, operation, start, cluster_size,
          randomness, pc, idx_ar, stop, dist, gen_pc, dist_sqr, arg_random,
          dist_1d_sqr, dist_cluster, bool_ar, loop_k, yielded, raised,
          raised_by, ret, ret_shared, written, first_call,
          parse_pc, cycle_at, cumsum, taken, bool_indices,
          mapping, mapping_in, base_key, filter_func, pop_i, pop_ret, pop_pc,
          mol_kind, delete_atom_arg, delete_atom, mol_dict, atoms, as_pc,
          as_raised, warned,
          df, df_in, status, index, job_recipe, columns, write, exported, to_db_pc>>

\* The arguments of the call, and the record of an earlier call: no step of
\* a call changes them.
call_args == <<entry, n, idx_kind, mode, f, start, cluster_size, randomness, first_call>>
\* The local variables of _parse_cluster_size and of the iterators it uses.
parse_locals == <<parse_pc, cycle_at, cumsum, taken, bool_indices>>
\* The arguments and local variables of pop_and_concatenate.
pop_locals == <<mapping, mapping_in, base_key, filter_func, pop_i, pop_ret, pop_pc>>
\* An AsArray instance, its molecule and its caller.
asarray_locals == <<mol_kind, delete_atom_arg, delete_atom, mol_dict, atoms, as_pc,
                    as_raised, warned>>
\* The arguments and effects of WorkFlow.to_db.
to_db_locals == <<df, df_in, status, index, job_recipe, columns, write, exported, to_db_pc>>
\* The functions outside CAT.attachment.distribution.
other_calls == <<pop_locals, asarray_locals, to_db_locals>>
\* The local variables of the generator.
gen_locals == <<dist_sqr, arg_random, dist_1d_sqr, dist_cluster, bool_ar, loop_k>>

----------------------------------------------------------------------------
(* Values                                                                  *)

Rows(m) == 0 .. (m - 1)

\* An array that does not exist (yet).
NoArray == [i \in {} |-> 0]

\* None for an optional int / an optional float.
NoStart == [given |-> FALSE, val |-> 0]
NoRandomness == [given |-> FALSE, num |-> 0, den |-> 1]

\* No earlier call.
NoCall == [given |-> FALSE, ret |-> <<>>, dist |-> <<>>, raised |-> "none"]

\* a < b and a <= b for fractions <<num, den>> with positive denominators
FracLess(a, b) == a[1] * b[2] < b[1] * a[2]
FracLeq(a, b) == a[1] * b[2] <= b[1] * a[2]

\* Python's round(): to the nearest integer, a tie to the even one.
Round(num, den) ==
    LET q == num \div den
        r == num % den
    IN  IF 2 * r < den THEN q
        ELSE IF 2 * r > den THEN q + 1
        ELSE IF q % 2 = 0 THEN q ELSE q + 1

Max(a, b) == IF a >= b THEN a ELSE b

\* an addition that skips NaN, as np.nansum does
AddSkippingNaN(a, b) == IF a = NaN THEN b ELSE IF b = NaN THEN a ELSE a + b

\* Float addition and the element-wise sum of two arrays.
Add(a, b) == IF a = NaN \/ b = NaN THEN NaN ELSE a + b
VecAddTwice(u, v) == [k \in DOMAIN u |-> Add(u[k], Add(v[k], v[k]))]
VecAdd(u, v) == [k \in DOMAIN u |-> Add(u[k], v[k])]

\* weight with the sign of the exponent lost: a weight that grows with x
weight_increasing(x) == IF x = NaN THEN NaN ELSE x + 1

\* 1000 * exp(-x) for x = 0, 1, 2, ...: the default weight, lambda x: np.exp(-x).
ExpTable == <<1000, 368, 135, 50, 18, 7, 2, 1>>
weight(x) == IF x = NaN THEN NaN ELSE IF x + 1 > Len(ExpTable) THEN 1 ELSE ExpTable[x + 1]

\* A float as the quotient num / den of two floats: x is <<x, 1>>,
\* x / 0 is an infinity and 0 / 0 is NaN.
IsNaN(q) == q[1] = NaN \/ q[2] = NaN \/ (q[1] = 0 /\ q[2] = 0)
Less(p, q) == p[1] * q[2] < q[1] * p[2]
Plain(v) == [k \in DOMAIN v |-> <<v[k], 1>>]
QuotientInverted(u, v) == [k \in DOMAIN u |-> <<v[k], u[k]>>]
Quotient(u, v) == [k \in DOMAIN u |-> <<u[k], v[k]>>]

\* The indices of the entries of a float array that are not NaN.
NotNaN(v) == {k \in DOMAIN v : ~IsNaN(v[k])}

\* np.nansum of a row of floats.
RECURSIVE SumUpTo(_, _)
SumUpTo(v, m) ==
    IF m = 0 THEN 0
    ELSE SumUpTo(v, m - 1) + (IF v[m - 1] = NaN THEN 0 ELSE v[m - 1])
nansum(v) == SumUpTo(v, Cardinality(DOMAIN v))

\* np.nanargmin / np.nanargmax: the first index of the extremum among the
\* entries that are not NaN.  (All NaN raises; see AllNaN.)
AllNaN(v) == NotNaN(v) = {}
nanargmin(v) ==
    CHOOSE k \in NotNaN(v) :
        \A j \in NotNaN(v) : ~Less(v[j], v[k]) /\ (j < k => Less(v[k], v[j]))
nanargmax(v) ==
    CHOOSE k \in NotNaN(v) :
        \A j \in NotNaN(v) : ~Less(v[k], v[j]) /\ (j < k => Less(v[j], v[k]))

\* OPERATION_MAPPING with 'max' mapped to np.nanargmin as well.
OPERATION_MAPPING_min_only(op, v) == nanargmin(v)

\* OPERATION_MAPPING
OPERATION_MAPPING(op, v) == IF op = "min" THEN nanargmin(v) ELSE nanargmax(v)
ValidOperation(op) == op \in {"min", "max"}

----------------------------------------------------------------------------
(* The arguments a caller can pass                                         *)

\* distribute_idx(mode=...); MODE_SET is the set of the accepted ones.
MODE_SET == {"uniform", "random", "cluster"}
Modes == MODE_SET \cup {"bogus"}

\* distribute_idx(f=...) as <<numerator, denominator>>
Fractions == {<<-1, 4>>, <<0, 1>>, <<1, 4>>, <<1, 2>>, <<7, 8>>, <<1, 1>>, <<3, 2>>}

\* The object passed as idx: a list of ints, an int ndarray, an object that
\* np.array(copy=False) wraps without copying (an ndarray subclass, a 0-d
\* array), or something that is not a collection of integers.
IdxKinds == {"list", "ndarray", "view", "bad"}

\* The contents of idx: m unique atomic indices, not sorted.
IdxInput(m) == [i \in Rows(m) |-> 2 * ((i + 1) % m) + 1]

\* uniform_idx(operation=...)
Operations == {"min", "max", "bogus"}

\* uniform_idx(start=...): None, a row, a negative row, or out of bounds
Starts(m) ==
    {NoStart} \cup {[given |-> TRUE, val |-> s] : s \in {-(m + 1), -1} \cup (0 .. m)}

\* distribute_idx(start=...), handed on to uniform_idx: kwargs.get('start', None)
KwStarts(m) == {NoStart} \cup {[given |-> TRUE, val |-> s] : s \in {-1, 0, m - 1, m}}

\* uniform_idx(cluster_size=...): an int, a sequence of ints, or a float
IntSize(k) == [kind |-> "int", val |-> k, seq |-> <<>>]
SeqSize(s) == [kind |-> "seq", val |-> 0, seq |-> s]
FloatSize == [kind |-> "float", val |-> 0, seq |-> <<>>]
ClusterSizes ==
    {IntSize(k) : k \in 0 .. MaxCluster} \cup {SeqSize(<<1, 2>>), SeqSize(<<2>>)} \cup {FloatSize}

\* uniform_idx(randomness=...): None or a float
Randomness ==
    {NoRandomness} \cup
    {[given |-> TRUE, num |-> r[1], den |-> r[2]] :
        r \in {<<-1, 2>>, <<0, 1>>, <<1, 2>>, <<1, 1>>, <<3, 2>>}}

\* The values np.random.sample() can return: floats in [0, 1).
RandDraws == {<<0, 1>>, <<1, 2>>, <<3, 4>>}

\* The distances between two different points, and the symmetric m x m
\* distance matrices with a zero diagonal.
Distances == {1, 2}
Pairs(m) == {p \in Rows(m) \X Rows(m) : p[1] < p[2]}
DistMatrices(m) ==
    {[i \in Rows(m) |-> [j \in Rows(m) |->
        IF i = j THEN 0 ELSE IF i < j THEN d[<<i, j>>] ELSE d[<<j, i>>]]] :
     d \in [Pairs(m) -> Distances]}

\* The distance matrix of m evenly spaced collinear points (spacing 1).
LineMatrix(m) == [i \in Rows(m) |-> [j \in Rows(m) |-> IF i < j THEN j - i ELSE i - j]]

\* The cluster sizes _min_or_max and _min_and_max accept, and the starts that
\* are rows of an m x m matrix.
ValidSizes == {c \in ClusterSizes : c.kind = "seq" \/ (c.kind = "int" /\ c.val >= 1)}
RowStarts(m) == {NoStart} \cup {[given |-> TRUE, val |-> s] : s \in {-1} \cup Rows(m)}

----------------------------------------------------------------------------
(* The state after the call is made                                        *)

NoGenerator ==
    /\ gen_pc = "none"
    /\ dist_sqr = NoArray
    /\ arg_random = FALSE
    /\ dist_1d_sqr = NoArray
    /\ dist_cluster = NoArray
    /\ bool_ar = NoArray
    /\ loop_k = 0
    /\ yielded = <<>>

NoParse ==
    /\ parse_pc = "none"
    /\ cycle_at = 0
    /\ cumsum = 0
    /\ taken = 0
    /\ bool_indices = {}

NoPop ==
    /\ mapping = NoArray
    /\ mapping_in = NoArray
    /\ base_key = ""
    /\ filter_func = "none"
    /\ pop_i = 0
    /\ pop_ret = <<>>
    /\ pop_pc = "none"

NoAsArray ==
    /\ mol_kind = "none"
    /\ delete_atom_arg = "none"
    /\ delete_atom = "none"
    /\ mol_dict = "none"
    /\ atoms = {}
    /\ as_pc = "none"
    /\ as_raised = "none"
    /\ warned = FALSE

NoExport == [csv |-> NoArray, columns |-> {}, rmtree |-> FALSE]

NoToDb ==
    /\ df = NoArray
    /\ df_in = NoArray
    /\ status = "none"
    /\ index = {}
    /\ job_recipe = FALSE
    /\ columns = {}
    /\ write = [write |-> FALSE, keep_files |-> TRUE]
    /\ exported = NoExport
    /\ to_db_pc = "none"

NothingDone ==
    /\ raised = "none"
    /\ raised_by = "none"
    /\ ret = NoArray
    /\ ret_shared = FALSE
    /\ written = FALSE
    /\ first_call = NoCall
    /\ NoParse
    /\ NoPop
    /\ NoAsArray
    /\ NoToDb

\* distribute_idx(core, idx, f, mode, start=, cluster_size=, randomness=)
InitDistribute ==
    /\ entry = "distribute_idx"
    /\ n \in 1 .. MaxN
    /\ idx = IdxInput(n)
    /\ idx_kind \in IdxKinds
    /\ mode \in Modes
    /\ f \in Fractions
    /\ start \in KwStarts(n)
    /\ cluster_size \in ClusterSizes
    /\ randomness \in Randomness
    /\ operation = "none"
    /\ pc = "called"
    /\ idx_ar = [same_object |-> FALSE, shares_buffer |-> FALSE]
    /\ stop = 0
    /\ dist = NoArray
    /\ NoGenerator
    /\ NothingDone

\* uniform_idx(dist, operation, cluster_size, start, randomness): calling a
\* generator function runs none of its body.
InitUniform ==
    /\ entry = "uniform_idx"
    /\ n \in 1 .. MaxN
    /\ idx = NoArray
    /\ idx_kind = "none"
    /\ mode = "none"
    /\ f = <<1, 1>>
    /\ start \in Starts(n)
    /\ cluster_size \in ClusterSizes
    /\ randomness \in Randomness
    /\ operation \in Operations
    /\ pc = "iterating"
    /\ idx_ar = [same_object |-> FALSE, shares_buffer |-> FALSE]
    /\ stop = 0
    /\ dist \in DistMatrices(n)
    /\ gen_pc = "created"
    /\ dist_sqr = NoArray
    /\ arg_random = FALSE
    /\ dist_1d_sqr = NoArray
    /\ dist_cluster = NoArray
    /\ bool_ar = NoArray
    /\ loop_k = 0
    /\ yielded = <<>>
    /\ NothingDone

\* uniform_idx(dist, operation, cluster_size, start) with accepted arguments
\* and without randomness: any matrix of up to MaxGreedyN points, or the
\* evenly spaced line of up to MaxLine points.
InitGreedy ==
    /\ entry = "uniform_idx"
    /\ n \in 1 .. MaxLine
    /\ idx = NoArray
    /\ idx_kind = "none"
    /\ mode = "none"
    /\ f = <<1, 1>>
    /\ start \in RowStarts(n)
    /\ cluster_size \in ValidSizes
    /\ randomness = NoRandomness
    /\ operation \in {"min", "max"}
    /\ pc = "iterating"
    /\ idx_ar = [same_object |-> FALSE, shares_buffer |-> FALSE]
    /\ stop = 0
    /\ dist \in (IF n <= MaxGreedyN THEN DistMatrices(n) ELSE {}) \cup {LineMatrix(n)}
    /\ gen_pc = "created"
    /\ dist_sqr = NoArray
    /\ arg_random = FALSE
    /\ dist_1d_sqr = NoArray
    /\ dist_cluster = NoArray
    /\ bool_ar = NoArray
    /\ loop_k = 0
    /\ yielded = <<>>
    /\ NothingDone

Init == InitDistribute

----------------------------------------------------------------------------
(* distribute_idx                                                          *)

\* np.array(idx, dtype=int, ndmin=1, copy=False): the same object for an int
\* ndarray, a new array on a new buffer for a list, a new array on the
\* caller's buffer for anything numpy can wrap without a copy.
ConvertIdx(kind) ==
    [same_object |-> kind = "ndarray", shares_buffer |-> kind \in {"ndarray", "view"}]

\* the lower bound of f taken as inclusive
ValidFractionClosed(x) == FracLeq(<<0, 1>>, x) /\ FracLeq(x, <<1, 1>>)

\* not (0.0 < f <= 1.0)
ValidFraction(x) == FracLess(<<0, 1>>, x) /\ FracLeq(x, <<1, 1>>)

\* int() without round(): the product truncated
StopTruncated(x, m) == Max(1, (x[1] * m) \div x[2])

\* the whole sequence asked for: count=len(idx_ar)
StopAll(x, m) == m

\* stop = max(1, int(round(f * len(idx_ar))))
Stop(x, m) == Max(1, Round(x[1] * m, x[2]))

\* idx_ar.copy() if idx_ar is idx else idx_ar: does the result use idx's buffer
ReturnsCallersBuffer(ar) == IF ar.same_object THEN FALSE ELSE ar.shares_buffer

\* Lines 91-112: the conversion of idx, the validation of mode and f, the
\* shortcut for f == 1.0 and the length of the result.
Validate ==
    /\ pc = "called"
    /\ entry = "distribute_idx"
    /\ UNCHANGED <<call_args, parse_locals, other_calls, idx, operation, dist, gen_pc, gen_locals, yielded, written>>
    /\ IF idx_kind = "bad"
       THEN /\ pc' = "raised" /\ raised' = "TypeError" /\ raised_by' = "idx"
            /\ UNCHANGED <<idx_ar, stop, ret, ret_shared>>
       ELSE /\ idx_ar' = ConvertIdx(idx_kind)
            /\ IF mode \notin MODE_SET
               THEN /\ pc' = "raised" /\ raised' = "ValueError" /\ raised_by' = "mode"
                    /\ UNCHANGED <<stop, ret, ret_shared>>
               ELSE IF ~ValidFraction(f)
               THEN /\ pc' = "raised" /\ raised' = "ValueError" /\ raised_by' = "f"
                    /\ UNCHANGED <<stop, ret, ret_shared>>
               ELSE IF f[1] = f[2]
               THEN /\ pc' = "returned"
                    /\ ret' = idx
                    /\ ret_shared' = ReturnsCallersBuffer(idx_ar')
                    /\ UNCHANGED <<stop, raised, raised_by>>
               ELSE /\ pc' = "select"
                    /\ stop' = Stop(f, n)
                    /\ UNCHANGED <<ret, ret_shared, raised, raised_by>>

\* a draw with replacement: positions can repeat
permutation_with_repeats(m) == [Rows(m) -> Rows(m)]

\* np.random.permutation(idx_ar): every ordering of the candidate positions
permutation(m) == {q \in [Rows(m) -> Rows(m)] : \A a, b \in Rows(m) : a # b => q[a] # q[b]}

\* Lines 113-122: the distance matrix of the candidates and the generator
\* (mode uniform or cluster); lines 125-129: the permutation (mode random).
\* cdist(xyz, xyz) is a function of core and idx: a second call with the same
\* core and idx gets the same matrix.
Select ==
    /\ pc = "select"
    /\ UNCHANGED <<call_args, parse_locals, other_calls, idx, idx_ar, stop, gen_locals, yielded, raised, raised_by, written>>
    /\ IF mode = "random"
       THEN /\ \E q \in permutation(n) : ret' = [k \in Rows(stop) |-> idx[q[k]]]
            /\ ret_shared' = FALSE
            /\ pc' = "returned"
            /\ UNCHANGED <<operation, dist, gen_pc>>
       ELSE /\ dist' \in (IF first_call.given THEN {first_call.dist} ELSE DistMatrices(n))
            /\ operation' = IF mode = "uniform" THEN "min" ELSE "max"
            /\ gen_pc' = "created"
            /\ pc' = "fromiter"
            /\ UNCHANGED <<ret, ret_shared>>

\* The caller writes to the first element of the array it got back (atomic
\* indices are positive: 0 is a new value).
WriteResult ==
    /\ pc = "returned"
    /\ ~written
    /\ written' = TRUE
    /\ ret' = [ret EXCEPT ![0] = 0]
    /\ idx' = IF ret_shared THEN [idx EXCEPT ![0] = 0] ELSE idx
    /\ UNCHANGED <<call_args, parse_locals, other_calls, operation, pc, idx_ar, stop, dist, gen_pc, gen_locals,
                   yielded, raised, raised_by, ret_shared>>

----------------------------------------------------------------------------
(* uniform_idx                                                             *)

\* the upper bound of a row index taken as inclusive
ValidRowInclusive(s, m) == -m <= s /\ s <= m

\* A numpy index s into an axis of length m: -m <= s < m, negative ones
\* counted from the end.
ValidRow(s, m) == -m <= s /\ s < m
PyIndex(s, m) == s % m

\* np.array(dist, dtype=float, copy=False) of a float array: no new buffer
SharesBufferAlways(copy) == TRUE

\* Line 248, np.array(dist, dtype=float, copy=copy): whether dist_sqr uses the
\* buffer of the caller's dist.
SharesBuffer(copy) == ~copy

\* Line 249, np.fill_diagonal(dist_sqr, np.nan): what it does to a matrix.
FillDiagonal(D) == [i \in DOMAIN D |-> [j \in DOMAIN D |-> IF i = j THEN NaN ELSE D[i][j]]]

\* Lines 248-250: the copy of dist with NaN on its diagonal, weighted.
WeightedCopy(D) ==
    [i \in DOMAIN D |-> [j \in DOMAIN D |-> weight(IF i = j THEN NaN ELSE D[i][j])]]

\* the start row taken with argmin and argmax exchanged
StartRowSwapped(op, st, W) ==
    IF st.given THEN st.val
    ELSE OPERATION_MAPPING(IF op = "min" THEN "max" ELSE "min",
                           Plain([i \in DOMAIN W |-> nansum(W[i])]))

\* Line 258: the row with the extremal sum of weights when start is None.
StartRow(op, st, W) ==
    IF st.given THEN st.val
    ELSE OPERATION_MAPPING(op, Plain([i \in DOMAIN W |-> nansum(W[i])]))

\* _parse_randomness: assert 0 <= randomness <= 1
ValidRandomness(r) ==
    FracLeq(<<0, 1>>, <<r.num, r.den>>) /\ FracLeq(<<r.num, r.den>>, <<1, 1>>)

\* _random_arg_func choosing among all of idx, the NaN entries not masked
arg_func_unmasked(v, r) ==
    IF arg_random /\ FracLess(r, <<randomness.num, randomness.den>>)
    THEN DOMAIN v
    ELSE IF AllNaN(v) THEN {} ELSE {OPERATION_MAPPING(operation, v)}

\* threshold >= rand_func() instead of threshold > rand_func()
arg_func_inclusive(v, r) ==
    IF arg_random /\ FracLeq(r, <<randomness.num, randomness.den>>)
    THEN NotNaN(v)
    ELSE IF AllNaN(v) THEN {} ELSE {OPERATION_MAPPING(operation, v)}

\* _random_arg_func with rand_func() = r: a random available index when
\* threshold > r, the extremum otherwise.  The plain arg_func when randomness
\* is None.  The set of the values the call can return.
arg_func(v, r) ==
    IF arg_random /\ FracLess(r, <<randomness.num, randomness.den>>)
    THEN NotNaN(v)
    ELSE IF AllNaN(v) THEN {} ELSE {OPERATION_MAPPING(operation, v)}

\* The consumer asks the generator for its next value: np.fromiter(islice(
\* generator1, stop), count=stop), or the caller of uniform_idx itself.
Wanted ==
    \/ entry = "distribute_idx" /\ pc = "fromiter" /\ Len(yielded) < stop
    \/ entry = "uniform_idx" /\ pc = "iterating"

\* The generator raises: the exception reaches the caller.
GenRaise(kind, by) ==
    /\ gen_pc' = "raised"
    /\ pc' = "raised"
    /\ raised' = kind
    /\ raised_by' = by
    /\ UNCHANGED <<yielded, ret, ret_shared>>

\* The k-th smallest element (k from 0) of a set of integers.
KthSmallest(S, k) == CHOOSE x \in S : Cardinality({z \in S : z < x}) = k

\* idx_ar indexed with a boolean mask of the chosen rows: the chosen
\* candidates in the order of idx
GenYieldMasked(y) ==
    /\ yielded' = Append(yielded, y)
    /\ UNCHANGED <<raised, raised_by>>
    /\ IF entry = "distribute_idx" /\ Len(yielded) + 1 = stop
       THEN /\ pc' = "returned"
            /\ ret' = LET chosen == {PyIndex(Append(yielded, y)[k + 1], n) : k \in Rows(stop)}
                      IN  [k \in Rows(stop) |-> idx[KthSmallest(chosen, k)]]
            /\ ret_shared' = FALSE
       ELSE UNCHANGED <<pc, ret, ret_shared>>

\* The generator yields y.  Lines 123 and 129: once np.fromiter has its stop
\* values, distribute_idx returns idx_ar[...][:stop].
GenYield(y) ==
    /\ yielded' = Append(yielded, y)
    /\ UNCHANGED <<raised, raised_by>>
    /\ IF entry = "distribute_idx" /\ Len(yielded) + 1 = stop
       THEN /\ pc' = "returned"
            /\ ret' = [k \in Rows(stop) |-> idx[PyIndex(Append(yielded, y)[k + 1], n)]]
            /\ ret_shared' = FALSE
       ELSE UNCHANGED <<pc, ret, ret_shared>>

\* The generator is exhausted (StopIteration).  np.fromiter(count=stop)
\* raises when it got fewer than stop values.
GenStop ==
    /\ gen_pc' = "exhausted"
    /\ UNCHANGED <<yielded, ret, ret_shared>>
    /\ IF entry = "distribute_idx"
       THEN pc' = "raised" /\ raised' = "ValueError" /\ raised_by' = "fromiter"
       ELSE pc' = "finished" /\ UNCHANGED <<raised, raised_by>>

\* The first next(): lines 247-273.
UniformIdxFirst ==
    /\ gen_pc = "created"
    /\ Wanted
    /\ UNCHANGED <<call_args, parse_locals, other_calls, idx, operation, idx_ar, stop, written>>
    /\ UNCHANGED <<dist_cluster, bool_ar, loop_k>>
    /\ dist' = IF SharesBuffer(TRUE) THEN FillDiagonal(dist) ELSE dist
    /\ dist_sqr' = WeightedCopy(dist)
    /\ IF ~ValidOperation(operation)
       THEN GenRaise("ValueError", "operation") /\ UNCHANGED <<arg_random, dist_1d_sqr>>
       ELSE LET s == StartRow(operation, start, dist_sqr')
            IN  IF randomness.given /\ ~ValidRandomness(randomness)
                THEN GenRaise("ValueError", "randomness") /\ UNCHANGED <<arg_random, dist_1d_sqr>>
                ELSE /\ arg_random' = randomness.given
                     /\ IF ~ValidRow(s, n)
                        THEN GenRaise("ValueError", "start") /\ UNCHANGED dist_1d_sqr
                        ELSE /\ dist_1d_sqr' = [dist_sqr'[PyIndex(s, n)] EXCEPT ![PyIndex(s, n)] = NaN]
                             /\ gen_pc' = "after_start"
                             /\ GenYield(s)

\* _min_or_max with one iteration too many: range(len(dist_1d_sqr))
MinOrMaxOneMore(d1, k) ==
    /\ UNCHANGED <<dist_cluster, bool_ar>>
    /\ IF k >= n
       THEN GenStop /\ UNCHANGED <<dist_1d_sqr, loop_k>>
       ELSE \E r \in RandDraws :
            IF arg_func(Plain(d1), r) = {}
            THEN GenRaise("ValueError", "arg_func") /\ UNCHANGED <<dist_1d_sqr, loop_k>>
            ELSE \E i \in arg_func(Plain(d1), r) :
                /\ dist_1d_sqr' = VecAdd([d1 EXCEPT ![i] = NaN], dist_sqr[i])
                /\ loop_k' = k + 1
                /\ gen_pc' = "in_loop"
                /\ GenYield(i)

\* _min_or_max: one iteration of the for loop, or its end.
MinOrMax(d1, k) ==
    /\ UNCHANGED <<dist_cluster, bool_ar>>
    /\ IF k >= n - 1
       THEN GenStop /\ UNCHANGED <<dist_1d_sqr, loop_k>>
       ELSE \E r \in RandDraws :
            IF arg_func(Plain(d1), r) = {}
            THEN GenRaise("ValueError", "arg_func") /\ UNCHANGED <<dist_1d_sqr, loop_k>>
            ELSE \E i \in arg_func(Plain(d1), r) :
                /\ dist_1d_sqr' = VecAdd([d1 EXCEPT ![i] = NaN], dist_sqr[i])
                /\ loop_k' = k + 1
                /\ gen_pc' = "in_loop"
                /\ GenYield(i)

\* cycle_accumulate(clusters): 0, c1, c1 + c2, ... over the repeated sequence,
\* here the sums below m (takewhile in _parse_cluster_size).
RECURSIVE CycleSums(_, _, _, _)
CycleSums(seq, at, total, m) ==
    IF total >= m THEN {}
    ELSE {total} \cup CycleSums(seq, (at % Len(seq)) + 1, total + seq[at], m)
parse_cluster_size(m, seq) == CycleSums(seq, 1, 0, m)

\* bool_ar without the [1:] of line 314: every flag one position late
BoolArUnshifted(cs, m) ==
    LET starts == IF cs.kind = "seq" THEN parse_cluster_size(m, cs.seq)
                  ELSE {i \in Rows(m) : i % cs.val = 0}
    IN  [i \in Rows(m - 1) |-> i \in starts]

\* Lines 299-314: bool_ar[1:], TRUE at the positions that start a cluster.
BoolAr(cs, m) ==
    LET starts == IF cs.kind = "seq" THEN parse_cluster_size(m, cs.seq)
                  ELSE {i \in Rows(m) : i % cs.val = 0}
    IN  [i \in Rows(m - 1) |-> (i + 1) \in starts]

\* _min_and_max: one iteration of the for loop over bool_ar, or its end.
MinAndMax(b, d1, dc, k) ==
    /\ bool_ar' = b
    /\ IF k >= n - 1
       THEN GenStop /\ dist_1d_sqr' = d1 /\ dist_cluster' = dc /\ loop_k' = k
       ELSE LET total == IF b[k] THEN VecAdd(d1, dc) ELSE d1
                cluster == IF b[k] THEN [i \in DOMAIN dc |-> 0] ELSE dc
                dist_1d == IF b[k] THEN Plain(total) ELSE Quotient(total, cluster)
            IN  \E r \in RandDraws :
                IF arg_func(dist_1d, r) = {}
                THEN /\ GenRaise("ValueError", "arg_func")
                     /\ dist_1d_sqr' = total /\ dist_cluster' = cluster /\ loop_k' = k
                ELSE \E j \in arg_func(dist_1d, r) :
                    /\ dist_1d_sqr' = [total EXCEPT ![j] = NaN]
                    /\ dist_cluster' = VecAdd(cluster, dist_sqr[j])
                    /\ loop_k' = k + 1
                    /\ gen_pc' = "in_loop"
                    /\ GenYield(j)

\* The second next(): lines 275-282 start the helper, which runs up to its
\* first yield.  _min_and_max first builds bool_ar (lines 299-316).
UniformIdxHelper ==
    /\ gen_pc = "after_start"
    /\ Wanted
    /\ UNCHANGED <<call_args, parse_locals, other_calls, idx, operation, idx_ar, stop, dist, written>>
    /\ UNCHANGED <<dist_sqr, arg_random>>
    /\ IF cluster_size = IntSize(1)
       THEN MinOrMax(dist_1d_sqr, 0)
       ELSE IF cluster_size.kind = "float"
       THEN GenRaise("TypeError", "cluster_size") /\ UNCHANGED <<dist_1d_sqr, dist_cluster, bool_ar, loop_k>>
       ELSE IF cluster_size.kind = "int" /\ cluster_size.val = 0
       THEN GenRaise("ValueError", "cluster_size") /\ UNCHANGED <<dist_1d_sqr, dist_cluster, bool_ar, loop_k>>
       ELSE MinAndMax(BoolAr(cluster_size, n), dist_1d_sqr, dist_1d_sqr, 0)

\* Every later next(): the next iteration of the helper's loop.
UniformIdxNext ==
    /\ gen_pc = "in_loop"
    /\ Wanted
    /\ UNCHANGED <<call_args, parse_locals, other_calls, idx, operation, idx_ar, stop, dist, written>>
    /\ UNCHANGED <<dist_sqr, arg_random>>
    /\ IF cluster_size = IntSize(1)
       THEN MinOrMax(dist_1d_sqr, loop_k)
       ELSE MinAndMax(bool_ar, dist_1d_sqr, dist_cluster, loop_k)

----------------------------------------------------------------------------

Next ==
    \/ Validate
    \/ Select
    \/ UniformIdxFirst
    \/ UniformIdxHelper
    \/ UniformIdxNext
    \/ WriteResult

Spec == Init /\ [][Next]_vars

\* The caller calls distribute_idx once more, with the same arguments but a
\* larger f < 1, and keeps the first result.
CallAgain ==
    /\ pc = "returned"
    /\ ~written
    /\ ~first_call.given
    /\ \E g \in Fractions : FracLess(f, g) /\ FracLess(g, <<1, 1>>) /\ f' = g
    /\ first_call' = [given |-> TRUE, ret |-> ret, dist |-> dist, raised |-> raised]
    /\ pc' = "called"
    /\ operation' = "none"
    /\ idx_ar' = [same_object |-> FALSE, shares_buffer |-> FALSE]
    /\ stop' = 0
    /\ dist' = NoArray
    /\ gen_pc' = "none"
    /\ dist_sqr' = NoArray
    /\ arg_random' = FALSE
    /\ dist_1d_sqr' = NoArray
    /\ dist_cluster' = NoArray
    /\ bool_ar' = NoArray
    /\ loop_k' = 0
    /\ yielded' = <<>>
    /\ ret' = NoArray
    /\ ret_shared' = FALSE
    /\ UNCHANGED <<parse_locals, other_calls, entry, n, idx, idx_kind, mode, start, cluster_size, randomness,
                   raised, raised_by, written>>

\* Two calls of distribute_idx in a greedy mode without randomness.
InitTwice ==
    /\ InitDistribute
    /\ mode \in {"uniform", "cluster"}
    /\ randomness = NoRandomness
    /\ cluster_size \in ValidSizes
    /\ idx_kind = "list"

NextTwice ==
    \/ Validate
    \/ Select
    \/ UniformIdxFirst
    \/ UniformIdxHelper
    \/ UniformIdxNext
    \/ CallAgain

SpecTwice == InitTwice /\ [][NextTwice]_vars

\* The caller, done with uniform_idx(dist, ..., randomness=None), iterates
\* over uniform_idx once more with the same arguments but randomness=0, and
\* keeps what the first generator yielded and raised.
IterateAgain ==
    /\ entry = "uniform_idx"
    /\ pc \in {"finished", "raised"}
    /\ ~first_call.given
    /\ ~randomness.given
    /\ randomness' = [given |-> TRUE, num |-> 0, den |-> 1]
    /\ first_call' = [given |-> TRUE, ret |-> yielded, dist |-> dist, raised |-> raised]
    /\ pc' = "iterating"
    /\ gen_pc' = "created"
    /\ dist_sqr' = NoArray
    /\ arg_random' = FALSE
    /\ dist_1d_sqr' = NoArray
    /\ dist_cluster' = NoArray
    /\ bool_ar' = NoArray
    /\ loop_k' = 0
    /\ yielded' = <<>>
    /\ raised' = "none"
    /\ raised_by' = "none"
    /\ UNCHANGED <<parse_locals, other_calls, entry, n, idx, idx_kind, mode, f, start, cluster_size, operation,
                   idx_ar, stop, dist, ret, ret_shared, written>>

\* uniform_idx without randomness, then with randomness=0.
InitAgain == InitUniform /\ randomness = NoRandomness

NextAgain ==
    \/ UniformIdxFirst
    \/ UniformIdxHelper
    \/ UniformIdxNext
    \/ IterateAgain

SpecAgain == InitAgain /\ [][NextAgain]_vars

\* The caller, done with uniform_idx(dist, ..., cluster_size=k), iterates
\* over uniform_idx once more with the same arguments but cluster_size=(k,),
\* and keeps what the first generator yielded.
IterateWithSequence ==
    /\ entry = "uniform_idx"
    /\ pc \in {"finished", "raised"}
    /\ ~first_call.given
    /\ cluster_size.kind = "int"
    /\ cluster_size' = SeqSize(<<cluster_size.val>>)
    /\ first_call' = [given |-> TRUE, ret |-> yielded, dist |-> dist, raised |-> raised]
    /\ pc' = "iterating"
    /\ gen_pc' = "created"
    /\ dist_sqr' = NoArray
    /\ arg_random' = FALSE
    /\ dist_1d_sqr' = NoArray
    /\ dist_cluster' = NoArray
    /\ bool_ar' = NoArray
    /\ loop_k' = 0
    /\ yielded' = <<>>
    /\ raised' = "none"
    /\ raised_by' = "none"
    /\ UNCHANGED <<parse_locals, other_calls, entry, n, idx, idx_kind, mode, f, start, randomness, operation,
                   idx_ar, stop, dist, ret, ret_shared, written>>

\* uniform_idx with an integer cluster_size k >= 1, then with (k,).
InitSequence == InitGreedy /\ cluster_size.kind = "int"

NextSequence ==
    \/ UniformIdxFirst
    \/ UniformIdxHelper
    \/ UniformIdxNext
    \/ IterateWithSequence

SpecSequence == InitSequence /\ [][NextSequence]_vars

\* _parse_cluster_size(ar_size, clusters) on its own, one value of the
\* iterator chain per step; ar_size is n and clusters is cluster_size.seq.
\* Iterables of non-negative integers of up to two elements.
ParseSeqs ==
    {<<>>} \cup {<<a>> : a \in 0 .. MaxCluster}
           \cup {<<a, b>> : a \in 0 .. MaxCluster, b \in 0 .. MaxCluster}

InitParse ==
    /\ entry = "_parse_cluster_size"
    /\ n \in 1 .. MaxN
    /\ cluster_size \in {SeqSize(q) : q \in ParseSeqs}
    /\ idx = NoArray
    /\ idx_kind = "none"
    /\ mode = "none"
    /\ f = <<1, 1>>
    /\ start = NoStart
    /\ randomness = NoRandomness
    /\ operation = "none"
    /\ pc = "parsing"
    /\ idx_ar = [same_object |-> FALSE, shares_buffer |-> FALSE]
    /\ stop = 0
    /\ dist = NoArray
    /\ NoGenerator
    /\ raised = "none"
    /\ raised_by = "none"
    /\ ret = NoArray
    /\ ret_shared = FALSE
    /\ written = FALSE
    /\ first_call = NoCall
    /\ parse_pc = "fromiter"
    /\ cycle_at = 1
    /\ cumsum = 0
    /\ taken = 0
    /\ bool_indices = {}
    /\ NoPop
    /\ NoAsArray
    /\ NoToDb

\* Lines 346-348: np.fromiter asks takewhile for a value, cycle_accumulate
\* gives its running sum, which is below ar_size, and np.fromiter stores it.
\* (np.fromiter stores values as long as it gets them; the model stops
\* counting one value after n * len(clusters).)
TakeWhile ==
    /\ parse_pc = "fromiter"
    /\ cluster_size.seq # <<>>
    /\ cumsum < n
    /\ taken <= n * Len(cluster_size.seq)
    /\ bool_indices' = bool_indices \cup {cumsum}
    /\ taken' = taken + 1
    /\ cumsum' = cumsum + cluster_size.seq[cycle_at]
    /\ cycle_at' = (cycle_at % Len(cluster_size.seq)) + 1
    /\ UNCHANGED <<call_args, other_calls, idx, operation, pc, idx_ar, stop, dist, gen_pc,
                   gen_locals, yielded, raised, raised_by, ret, ret_shared, written, parse_pc>>

\* Lines 346-348: the chain is exhausted (a running sum not below ar_size,
\* or an empty iterable, which cycle() never repeats): np.fromiter returns.
FromIterReturns ==
    /\ parse_pc = "fromiter"
    /\ cluster_size.seq = <<>> \/ cumsum >= n
    /\ parse_pc' = "returned"
    /\ pc' = "finished"
    /\ UNCHANGED <<call_args, other_calls, idx, operation, idx_ar, stop, dist, gen_pc,
                   gen_locals, yielded, raised, raised_by, ret, ret_shared, written,
                   cycle_at, cumsum, taken, bool_indices>>

NextParse ==
    \/ TakeWhile
    \/ FromIterReturns

SpecParse == InitParse /\ [][NextParse]_vars

\* pop_and_concatenate(mapping, base_key, filter_func) of CAT.workflows.workflow.

\* No call of CAT.attachment.distribution is made.
NoDistribution ==
    /\ n = 1
    /\ cluster_size = IntSize(1)
    /\ idx = NoArray
    /\ idx_kind = "none"
    /\ mode = "none"
    /\ f = <<1, 1>>
    /\ start = NoStart
    /\ randomness = NoRandomness
    /\ operation = "none"
    /\ pc = "none"
    /\ idx_ar = [same_object |-> FALSE, shares_buffer |-> FALSE]
    /\ stop = 0
    /\ dist = NoArray
    /\ NoGenerator
    /\ raised = "none"
    /\ raised_by = "none"
    /\ ret = NoArray
    /\ ret_shared = FALSE
    /\ written = FALSE
    /\ first_call = NoCall
    /\ NoParse

distribution_vars == <<call_args, parse_locals, idx, operation, pc, idx_ar, stop, dist,
                       gen_pc, gen_locals, yielded, raised, raised_by, ret, ret_shared,
                       written>>

\* key = f'{base_key}{i}'
Key(base, k) == base \o ToString(k)

\* mapping.pop(key) leaves the mapping without the key.
PoppedKept(map, key) == map
Popped(map, key) == [k \in (DOMAIN map) \ {key} |-> map[k]]

\* _return_True and _lt_0, the two filters of the module.
FilterFuncs == {"_return_True", "_lt_0"}
FilterAccepts(func, value) ==
    IF func = "_lt_0" THEN value < 0 ELSE TRUE

\* The keys and values of the mappings: numbered keys of the base 'job',
\* one of the base 'job1', one with a padded number and an unrelated one.
PopKeys == {Key("job", k) : k \in 1 .. MaxKeys} \cup {"job11", "job01", "final_key"}
PopValues == {-1, 1}
Mappings == UNION {[K -> PopValues] : K \in SUBSET PopKeys}

InitPop ==
    /\ entry = "pop_and_concatenate"
    /\ NoDistribution
    /\ NoAsArray
    /\ NoToDb
    /\ mapping \in Mappings
    /\ mapping_in = mapping
    /\ base_key \in {"job", "job1"}
    /\ filter_func \in FilterFuncs
    /\ pop_i = 1
    /\ pop_ret = <<>>
    /\ pop_pc = "loop"

\* Lines 95-102: an iteration of the loop in which the key is found.
PopValue ==
    /\ pop_pc = "loop"
    /\ Key(base_key, pop_i) \in DOMAIN mapping
    /\ LET key == Key(base_key, pop_i)
           value == mapping[key]
       IN /\ mapping' = Popped(mapping, key)
          /\ pop_ret' = IF FilterAccepts(filter_func, value)
                        THEN Append(pop_ret, value)
                        ELSE pop_ret
    /\ pop_i' = pop_i + 1
    /\ UNCHANGED <<distribution_vars, asarray_locals, to_db_locals,
                   mapping_in, base_key, filter_func, pop_pc>>

\* Lines 95-99: the key is missing, the KeyError ends the loop.
PopReturn ==
    /\ pop_pc = "loop"
    /\ Key(base_key, pop_i) \notin DOMAIN mapping
    /\ pop_pc' = "returned"
    /\ UNCHANGED <<distribution_vars, asarray_locals, to_db_locals,
                   mapping, mapping_in, base_key, filter_func, pop_i, pop_ret>>

NextPop ==
    \/ PopValue
    \/ PopReturn

SpecPop == InitPop /\ [][NextPop]_vars

\* AsArray of CAT.attachment.as_array, used as
\*     with AsArray(mol, delete_atom=...) as xyz: ... mol.delete_atom(atom) ...

\* mol: a PLAMS Molecule, a list of atoms, or an instance of a Sequence
\* class written in Python (which can be given attributes).
MolKinds == {"Molecule", "list", "Sequence"}
DeleteAtomArgs == {"raise", "warn", "pass", "Raise", "WARN", "ignore"}

\* str.lower()
Lower(str) ==
    CASE str = "Raise" -> "raise"
      [] str = "WARN" -> "warn"
      [] OTHER -> str

\* Line 119: self.delete_atom
SelfDeleteAtom(kind, arg) == IF kind # "Molecule" THEN Lower(arg) ELSE "pass"

InitAsArray ==
    /\ entry = "AsArray"
    /\ NoDistribution
    /\ NoPop
    /\ NoToDb
    /\ mol_kind \in MolKinds
    /\ delete_atom_arg \in DeleteAtomArgs
    /\ delete_atom = "none"
    /\ mol_dict = "none"
    /\ atoms \in {1 .. k : k \in 0 .. MaxAtoms}
    /\ as_pc = "call"
    /\ as_raised = "none"
    /\ warned = FALSE

\* Lines 115-134: AsArray.__init__
AsArrayInit ==
    /\ as_pc = "call"
    /\ LET self_delete_atom == SelfDeleteAtom(mol_kind, delete_atom_arg)
       IN /\ delete_atom' = self_delete_atom
          /\ IF self_delete_atom = "pass"
             THEN /\ as_pc' = "constructed"
                  /\ UNCHANGED <<mol_dict, as_raised>>
             ELSE IF self_delete_atom \notin {"raise", "warn"}
             THEN \* getattr(self, '_ignore')
                  /\ as_pc' = "raised"
                  /\ as_raised' = "ValueError"
                  /\ UNCHANGED mol_dict
             ELSE IF mol_kind = "list"
             THEN \* setattr() on a list
                  /\ as_pc' = "raised"
                  /\ as_raised' = "AttributeError"
                  /\ UNCHANGED mol_dict
             ELSE /\ as_pc' = "constructed"
                  /\ mol_dict' = self_delete_atom
                  /\ UNCHANGED as_raised
    /\ UNCHANGED <<distribution_vars, pop_locals, to_db_locals,
                   mol_kind, delete_atom_arg, atoms, warned>>

\* Lines 136-139: AsArray.__enter__
AsArrayEnter ==
    /\ as_pc = "constructed"
    /\ as_pc' = "entered"
    /\ UNCHANGED <<distribution_vars, pop_locals, to_db_locals,
                   mol_kind, delete_atom_arg, delete_atom, mol_dict, atoms, as_raised, warned>>

\* mol.delete_atom(atom) for an atom of mol, inside or after the with block:
\* the instance attribute set by __init__ if there is one (lines 153-165),
\* and Molecule.delete_atom otherwise.
MolDeleteAtom ==
    /\ as_pc \in {"entered", "exited"}
    /\ \E atom \in atoms :
          IF mol_dict = "raise"
          THEN /\ as_raised' = "MoleculeError"
               /\ UNCHANGED <<atoms, warned>>
          ELSE IF mol_kind # "Molecule"
          THEN \* no such method, or Molecule.delete_atom on another object
               /\ as_raised' = "AttributeError"
               /\ warned' = (warned \/ mol_dict = "warn")
               /\ UNCHANGED atoms
          ELSE /\ atoms' = atoms \ {atom}
               /\ as_raised' = "none"
               /\ warned' = (warned \/ mol_dict = "warn")
    /\ UNCHANGED <<distribution_vars, pop_locals, to_db_locals,
                   mol_kind, delete_atom_arg, delete_atom, mol_dict, as_pc>>

\* Lines 141-150: AsArray.__exit__
AsArrayExit ==
    /\ as_pc = "entered"
    /\ mol_dict' = IF delete_atom \in {"raise", "warn"} THEN "none" ELSE mol_dict
    /\ delete_atom' = "none"
    /\ as_pc' = "exited"
    /\ UNCHANGED <<distribution_vars, pop_locals, to_db_locals,
                   mol_kind, delete_atom_arg, atoms, as_raised, warned>>

NextAsArray ==
    \/ AsArrayInit
    \/ AsArrayEnter
    \/ MolDeleteAtom
    \/ AsArrayExit

SpecAsArray == InitAsArray /\ [][NextAsArray]_vars

\* WorkFlow.to_db(df, status, job_recipe, index, columns) of CAT.workflows.workflow.

\* Line 33: the column with the optimization status; the other columns.
OPT == <<"opt", "">>
ColumnKeys == {OPT, <<"mol", "">>, <<"settings", "1">>}

\* Lines 448-452
ExportColumns(recipe, cols) ==
    IF recipe THEN cols ELSE {c \in cols : c[1] # "settings"}

\* Line 456: df.loc[index, OPT] = ...
SetOpt(frame, rows, value) ==
    [r \in DOMAIN frame |-> IF r \in rows THEN value ELSE frame[r]]

InitToDb ==
    /\ entry = "to_db"
    /\ NoDistribution
    /\ NoPop
    /\ NoAsArray
    /\ df \in UNION {[Rows(m) -> BOOLEAN] : m \in 1 .. MaxRows}
    /\ df_in = df
    /\ status \in {"optimized", "failed", "None"}
    /\ index \in SUBSET (DOMAIN df)
    /\ job_recipe \in BOOLEAN
    /\ columns \in {ColumnKeys, {OPT}}
    /\ write \in [write : BOOLEAN, keep_files : BOOLEAN]
    /\ exported = NoExport
    /\ to_db_pc = "call"

\* Lines 446-472
ToDb ==
    /\ to_db_pc = "call"
    /\ df' = IF status = "optimized" THEN SetOpt(df, index, FALSE) ELSE df
    /\ exported' = [csv |-> IF write.write THEN [r \in index |-> df'[r]] ELSE NoArray,
                    columns |-> IF write.write THEN ExportColumns(job_recipe, columns) ELSE {},
                    rmtree |-> ~write.keep_files]
    /\ to_db_pc' = "returned"
    /\ UNCHANGED <<distribution_vars, pop_locals, asarray_locals,
                   df_in, status, index, job_recipe, columns, write>>

NextToDb ==
    \/ ToDb

SpecToDb == InitToDb /\ [][NextToDb]_vars

\* A caller that iterates over uniform_idx(dist, ...) itself.
NextUniform ==
    \/ UniformIdxFirst
    \/ UniformIdxHelper
    \/ UniformIdxNext

SpecUniform == InitUniform /\ [][NextUniform]_vars

\* The same caller, with accepted arguments and no randomness.
SpecGreedy == InitGreedy /\ [][NextUniform]_vars

----------------------------------------------------------------------------
(* The properties                                                          *)

\* distribute_idx has returned and the caller has not touched the result.
Returned == pc = "returned" /\ ~written

Length(a) == Cardinality(DOMAIN a)
NoDuplicates(a) == \A i, j \in DOMAIN a : i # j => a[i] # a[j]
GreedyMode == mode \in {"uniform", "cluster"}

\* f is not in (0, 1]; the float r is not in [0, 1] (positive denominators).
FractionOutOfRange(x) == x[1] <= 0 \/ x[1] > x[2]
RandomnessOutOfRange(r) == r.num < 0 \/ r.num > r.den
BadMode == mode \notin {"uniform", "cluster", "random"}

\* The sum of g[k] over the elements k of the set S.
RECURSIVE SetSum(_, _)
SetSum(g, S) ==
    IF S = {} THEN 0
    ELSE LET k == CHOOSE x \in S : TRUE IN g[k] + SetSum(g, S \ {k})

\* The point a yielded value stands for (a negative start counts from the end).
Point(y) == IF y < 0 THEN y + n ELSE y

\* C1: the array distribute_idx returns has no duplicate entry and every entry
\* is an element of idx, in every mode, for every cluster_size and randomness
\* and every outcome of the random draws.
C1_UniqueSubset ==
    Returned =>
        /\ NoDuplicates(ret)
        /\ \A k \in DOMAIN ret : \E i \in Rows(n) : ret[k] = idx[i]

\* C1 witness: a clustered selection with random overrides returned all of
\* three candidates.
C1_Witness ==
    /\ Returned
    /\ GreedyMode
    /\ Length(ret) = 3
    /\ randomness.given
    /\ cluster_size # IntSize(1)

\* C2: the length of the returned array is max(1, round(f * n)), and at most n.
C2_Length ==
    Returned =>
        /\ Length(ret) = Max(1, Round(f[1] * n, f[2]))
        /\ Length(ret) <= n

\* C2 witness: f * n = 7/8 * 3 is rounded up to 3 in a greedy mode.
C2_Witness ==
    /\ Returned
    /\ GreedyMode
    /\ f = <<7, 8>>
    /\ n = 3
    /\ Length(ret) = 3

\* C3: with f == 1.0 the result equals idx in the input order and is an
\* independent copy: writing to it never changes the caller's idx.
C3_IdentityCopy ==
    (pc = "returned" /\ f = <<1, 1>>) =>
        /\ ~written => ret = IdxInput(n)
        /\ idx = IdxInput(n)

\* C4 as stated: an invalid mode or an f outside (0, 1] raises ValueError,
\* whatever the other arguments are, before a distance matrix or a generator
\* exists.
C4_ValueErrorAlways ==
    (pc # "called" /\ (BadMode \/ FractionOutOfRange(f))) =>
        /\ pc = "raised"
        /\ raised = "ValueError"
        /\ dist = NoArray /\ gen_pc = "none" /\ ret = NoArray

\* C4 amended: an invalid mode or an f outside (0, 1] makes the call raise
\* before a distance matrix or a generator exists and without a result:
\* ValueError when idx converts to an integer array, the TypeError of the
\* conversion of idx otherwise.
C4_RaisesFirst ==
    (pc # "called" /\ (BadMode \/ FractionOutOfRange(f))) =>
        /\ pc = "raised"
        /\ raised = (IF idx_kind = "bad" THEN "TypeError" ELSE "ValueError")
        /\ raised_by = (IF idx_kind = "bad" THEN "idx"
                        ELSE IF BadMode THEN "mode" ELSE "f")
        /\ dist = NoArray /\ gen_pc = "none" /\ ret = NoArray

\* C4 witness: f = 0 with a valid mode and a valid idx was rejected.
C4_Witness ==
    /\ pc = "raised"
    /\ raised = "ValueError"
    /\ raised_by = "f"
    /\ f = <<0, 1>>
    /\ mode = "uniform"

\* C5: no call in mode uniform or cluster with cluster_size = 0 returns
\* indices (every such call with a valid f raises).
C5_ZeroClusterSizeRejected ==
    (GreedyMode /\ cluster_size = IntSize(0)) => pc # "returned"

\* C6: an argument-validation error of uniform_idx is never raised after an
\* index has been yielded.
C6_NoErrorAfterYield ==
    raised_by \in {"operation", "randomness", "start", "cluster_size"} => yielded = <<>>

\* C7: no call in mode uniform or cluster with a randomness outside [0, 1]
\* returns indices.
C7_RandomnessRejected ==
    (GreedyMode /\ randomness.given /\ RandomnessOutOfRange(randomness)) => pc # "returned"

\* C8: with a start that is not a row index of the matrix, the first next()
\* raises and nothing is ever yielded; with an accepted operation and
\* randomness the error is the ValueError of the access to the start row.
C8_StartOutOfBounds ==
    (start.given /\ ~(-n <= start.val /\ start.val < n) /\ gen_pc # "created") =>
        /\ gen_pc = "raised"
        /\ raised # "none"
        /\ yielded = <<>>
        /\ (operation \in {"min", "max"} /\ raised_by # "randomness") =>
               (raised = "ValueError" /\ raised_by = "start")

\* C8 witness: start = n was rejected at the access to the start row.
C8_Witness ==
    /\ start.given
    /\ start.val = n
    /\ raised_by = "start"
    /\ yielded = <<>>

\* The sum of the weights of the off-diagonal distances of row i.
RowWeight(i) == SetSum([j \in Rows(n) |-> weight(dist[i][j])], Rows(n) \ {i})

\* C9: the first yielded index is start when given; otherwise a row whose sum
\* of weighted off-diagonal distances is the minimum (operation min) or the
\* maximum (operation max) over all rows, whatever randomness is.
C9_FirstIndex ==
    Len(yielded) >= 1 =>
        IF start.given THEN yielded[1] = start.val
        ELSE /\ yielded[1] \in Rows(n)
             /\ \A k \in Rows(n) :
                    IF operation = "min" THEN RowWeight(yielded[1]) <= RowWeight(k)
                    ELSE RowWeight(yielded[1]) >= RowWeight(k)

\* C9 witness: with randomness 1 and no start the rows differ in their sums
\* and the first index has been yielded.
C9_Witness ==
    /\ Len(yielded) >= 1
    /\ ~start.given
    /\ randomness = [given |-> TRUE, num |-> 1, den |-> 1]
    /\ \E k \in Rows(n) : RowWeight(k) # RowWeight(yielded[1])

\* C10: operation min, cluster_size 1, no randomness: the second yielded point
\* is not the first one and no remaining point is farther from the first.
C10_SecondIsFarthest ==
    (operation = "min" /\ cluster_size = IntSize(1) /\ ~randomness.given /\ Len(yielded) >= 2) =>
        /\ yielded[2] # Point(yielded[1])
        /\ \A k \in Rows(n) \ {Point(yielded[1])} :
               dist[Point(yielded[1])][yielded[2]] >= dist[Point(yielded[1])][k]

\* C10 witness: the remaining points are at different distances from the first.
C10_Witness ==
    /\ operation = "min"
    /\ cluster_size = IntSize(1)
    /\ ~randomness.given
    /\ Len(yielded) >= 2
    /\ \E k \in Rows(n) \ {Point(yielded[1])} :
           dist[Point(yielded[1])][k] < dist[Point(yielded[1])][yielded[2]]

\* C11: operation max, cluster_size 1, no randomness: the second yielded point
\* is not the first one and no remaining point is nearer to the first.
C11_SecondIsNearest ==
    (operation = "max" /\ cluster_size = IntSize(1) /\ ~randomness.given /\ Len(yielded) >= 2) =>
        /\ yielded[2] # Point(yielded[1])
        /\ \A k \in Rows(n) \ {Point(yielded[1])} :
               dist[Point(yielded[1])][yielded[2]] <= dist[Point(yielded[1])][k]

\* C11 witness: the remaining points are at different distances from the first.
C11_Witness ==
    /\ operation = "max"
    /\ cluster_size = IntSize(1)
    /\ ~randomness.given
    /\ Len(yielded) >= 2
    /\ \E k \in Rows(n) \ {Point(yielded[1])} :
           dist[Point(yielded[1])][k] > dist[Point(yielded[1])][yielded[2]]

\* Two points of the evenly spaced line are neighbours.
Adjacent(a, b) == a - b = 1 \/ b - a = 1

\* The call of C12: operation min (mode uniform), cluster_size 2, on the line
\* of 8 evenly spaced points.
LineOfEight ==
    /\ n = 8
    /\ dist = LineMatrix(8)
    /\ operation = "min"
    /\ cluster_size = IntSize(2)

\* C12 as stated: when all 8 indices are produced, the two points of each of
\* the pairs at the positions 0-1, 2-3, 4-5, 6-7 are adjacent on the line.
C12_AllPairsAdjacent ==
    (LineOfEight /\ Len(yielded) = 8) =>
        \A p \in 0 .. 3 : Adjacent(Point(yielded[2 * p + 1]), Point(yielded[2 * p + 2]))

\* C12 amended: with start left at None the indices come in the order
\* 0, 1, 7, 6, 4, 3, 5, 2: the first three pairs are adjacent points, the last
\* pair holds the two points left over, which are not adjacent.
C12_ThreeAdjacentPairs ==
    (LineOfEight /\ ~start.given) =>
        /\ \A k \in 1 .. Len(yielded) : yielded[k] = <<0, 1, 7, 6, 4, 3, 5, 2>>[k]
        /\ Len(yielded) = 8 =>
               /\ \A p \in 0 .. 2 : Adjacent(yielded[2 * p + 1], yielded[2 * p + 2])
               /\ ~Adjacent(yielded[7], yielded[8])

\* C12 witness: all 8 indices were produced and the last pair is 5, 2.
C12_Witness ==
    /\ LineOfEight
    /\ ~start.given
    /\ Len(yielded) = 8
    /\ yielded[7] = 5
    /\ yielded[8] = 2

\* C13: with a randomness, every index yielded after the first is a row that
\* was still available, so no point is yielded twice, for every cluster_size
\* and every outcome of the random draws.
C13_RandomStaysAvailable ==
    randomness.given =>
        /\ \A k \in 2 .. Len(yielded) : yielded[k] \in Rows(n)
        /\ \A i, j \in 1 .. Len(yielded) : i # j => Point(yielded[i]) # Point(yielded[j])

\* C13 witness: all of three points were yielded and the second one is not the
\* farthest from the first, so it was chosen by the random override.
C13_Witness ==
    /\ randomness.given
    /\ operation = "min"
    /\ cluster_size = IntSize(1)
    /\ n = 3
    /\ Len(yielded) = 3
    /\ \E k \in Rows(n) \ {Point(yielded[1])} :
           dist[Point(yielded[1])][k] > dist[Point(yielded[1])][yielded[2]]

\* C14 as stated: in mode random every result, the one for f = 1.0 included,
\* is produced by the random permutation (so that its order can vary).
C14_ProducedByPermutation ==
    [][(mode = "random" /\ pc # "returned" /\ pc' = "returned") => pc = "select"]_vars

\* C14 amended: in mode random no distance matrix and no generator exists;
\* the result has no duplicate entry and only entries of idx; with f = 1.0 it
\* is idx in the input order, with f < 1 it has max(1, round(f * n)) entries.
C14_RandomPermutation ==
    (mode = "random" /\ Returned) =>
        /\ dist = NoArray
        /\ gen_pc = "none"
        /\ NoDuplicates(ret)
        /\ \A k \in DOMAIN ret : \E i \in Rows(n) : ret[k] = idx[i]
        /\ IF f = <<1, 1>> THEN ret = idx
           ELSE Length(ret) = Max(1, Round(f[1] * n, f[2]))

\* C14 witness: with f < 1 all of three candidates were returned in an order
\* that is not the input order.
C14_Witness ==
    /\ mode = "random"
    /\ Returned
    /\ f # <<1, 1>>
    /\ n = 3
    /\ Length(ret) = 3
    /\ ret[0] = idx[2]

\* C15: in a greedy mode the generator is never advanced more than
\* max(1, round(f * n)) times, and at the return it has yielded exactly that
\* many indices and run one selection iteration less.
C15_LazyTruncation ==
    (entry = "distribute_idx" /\ gen_pc # "none") =>
        LET needed == Max(1, Round(f[1] * n, f[2]))
        IN  /\ Len(yielded) <= needed
            /\ loop_k <= needed - 1
            /\ pc = "returned" => (Len(yielded) = needed /\ loop_k = needed - 1)

\* C15 witness: 2 of 3 candidates were asked for and returned after one
\* selection iteration.
C15_Witness ==
    /\ pc = "returned"
    /\ GreedyMode
    /\ n = 3
    /\ stop = 2
    /\ Len(yielded) = 2
    /\ loop_k = 1

\* uniform_idx is called with arguments it accepts.
ValidCall ==
    /\ operation \in {"min", "max"}
    /\ cluster_size \in ValidSizes
    /\ randomness.given => ~RandomnessOutOfRange(randomness)
    /\ start.given => (-n <= start.val /\ start.val < n)

C17_InputsUnchanged ==
    [][(gen_pc # "none" => dist' = dist) /\ (written' = written => idx' = idx)]_vars

\* C17 witness: after a greedy selection the diagonal and the selected points
\* are masked in the generator's arrays, and dist and idx are as passed.
C17_Witness ==
    /\ pc = "returned"
    /\ GreedyMode
    /\ Len(yielded) >= 2
    /\ idx = IdxInput(n)
    /\ \A i \in Rows(n) : dist[i][i] = 0 /\ dist_sqr[i][i] = NaN
    /\ \A k \in 1 .. Len(yielded) : dist_1d_sqr[PyIndex(yielded[k], n)] = NaN

\* C18: every index uniform_idx yields is an integer in [0, n), whatever start
\* it accepted.
C18_YieldedInRange ==
    \A k \in 1 .. Len(yielded) : yielded[k] \in Rows(n)

\* The sum of weight(D[k, a]) over the points a of the set S.
Score(k, S) == SetSum([a \in Rows(n) |-> weight(dist[k][a])], S)

\* The points yielded before the i-th value (i = 1 is the start).
YieldedBefore(i) == {Point(yielded[a]) : a \in 1 .. (i - 1)}

\* C19: cluster_size 1, no randomness: every index yielded after the start is
\* a row not yielded before whose sum of weight(D[k, a]) over the points a
\* yielded before is the least (operation min) or the greatest (operation
\* max) of all such rows, and the lowest such row.
C19_GreedySum ==
    (cluster_size = IntSize(1) /\ ~randomness.given) =>
        \A i \in 2 .. Len(yielded) :
            LET prev == YieldedBefore(i)
                y == yielded[i]
            IN  /\ y \in Rows(n) \ prev
                /\ \A k \in Rows(n) \ prev :
                       IF operation = "min"
                       THEN Score(y, prev) <= Score(k, prev) /\ (k < y => Score(y, prev) < Score(k, prev))
                       ELSE Score(y, prev) >= Score(k, prev) /\ (k < y => Score(y, prev) > Score(k, prev))

\* C19 witness: the third index was chosen among rows whose sums over the
\* two points yielded before differ.
C19_Witness ==
    /\ cluster_size = IntSize(1)
    /\ ~randomness.given
    /\ Len(yielded) >= 3
    /\ \E k \in Rows(n) \ YieldedBefore(3) :
           Score(k, YieldedBefore(3)) # Score(yielded[3], YieldedBefore(3))

\* The position at which the cluster of the i-th yielded value starts
\* (positions count from 1; bool_ar[j - 2] tells whether position j starts one).
ClusterStart(i) ==
    CHOOSE j \in 1 .. i :
        /\ j = 1 \/ bool_ar[j - 2]
        /\ \A m \in (j + 1) .. i : ~bool_ar[m - 2]

\* The members of the clusters completed before the cluster of position i,
\* and the members of that cluster yielded before position i.
Completed(i) == {Point(yielded[a]) : a \in 1 .. (ClusterStart(i) - 1)}
InProgress(i) == {Point(yielded[a]) : a \in ClusterStart(i) .. (i - 1)}

\* C20: cluster_size != 1, no randomness: the first member of a new cluster
\* is an arg-extremum over the available rows k of P(k), the sum of
\* weight(D[k, a]) over the members a of the completed clusters; a further
\* member is an arg-extremum of P(k) / C(k), C(k) being that sum over the
\* members of the cluster in progress; and in the accumulators every yielded
\* point counts once: dist_1d_sqr is P and dist_cluster is C.
C20_DocumentedScore ==
    (cluster_size # IntSize(1) /\ ~randomness.given /\ Len(yielded) >= 2) =>
        /\ \A i \in 2 .. Len(yielded) :
               LET y == yielded[i]
                   P == Completed(i)
                   C == InProgress(i)
               IN  \A k \in Rows(n) \ YieldedBefore(i) :
                       IF ClusterStart(i) = i
                       THEN IF operation = "min" THEN Score(y, P) <= Score(k, P)
                            ELSE Score(y, P) >= Score(k, P)
                       ELSE IF operation = "min"
                            THEN Score(y, P) * Score(k, C) <= Score(k, P) * Score(y, C)
                            ELSE Score(y, P) * Score(k, C) >= Score(k, P) * Score(y, C)
        /\ gen_pc = "in_loop" =>
               LET m == Len(yielded)
               IN  \A k \in Rows(n) \ YieldedBefore(m + 1) :
                       /\ dist_1d_sqr[k] = Score(k, Completed(m))
                       /\ dist_cluster[k] = Score(k, InProgress(m) \cup {Point(yielded[m])})

\* c1 + ... + cm over the cyclically repeated sequence seq.
RECURSIVE RunningSum(_, _)
RunningSum(seq, m) ==
    IF m = 0 THEN 0 ELSE RunningSum(seq, m - 1) + seq[((m - 1) % Len(seq)) + 1]

\* The positions (from 0) below n at which C21 says a cluster begins.
StartPositions ==
    IF cluster_size.kind = "int"
    THEN {p \in Rows(n) : \E q \in 0 .. n : p = q * cluster_size.val}
    ELSE {RunningSum(cluster_size.seq, m) : m \in 0 .. n} \cap Rows(n)

\* The points yielded at the positions from the last start position up to
\* position p.
ClusterUpTo(p) ==
    LET first == CHOOSE s \in StartPositions : s <= p /\ \A t \in StartPositions : t <= p => t <= s
    IN  {Point(yielded[a + 1]) : a \in first .. p}

\* C21: cluster_size != 1: the flags of the loop mark exactly the positions
\* 0, k, 2k, ... (an integer k) or 0, c1, c1 + c2, ... (a sequence) below n,
\* and after every yield the accumulator of the cluster in progress holds
\* exactly the points yielded since the last of these positions.
C21_ClusterStarts ==
    (cluster_size # IntSize(1) /\ gen_pc = "in_loop") =>
        /\ \A p \in 1 .. (n - 1) : bool_ar[p - 1] <=> (p \in StartPositions)
        /\ \A k \in Rows(n) \ YieldedBefore(Len(yielded) + 1) :
               dist_cluster[k] = Score(k, ClusterUpTo(Len(yielded) - 1))

\* C21 witness: with cluster_size (1, 2) on 4 points the clusters begin at
\* the positions 0, 1 and 3.
C21_Witness ==
    /\ cluster_size = SeqSize(<<1, 2>>)
    /\ n = 4
    /\ Len(yielded) = 3
    /\ gen_pc = "in_loop"
    /\ bool_ar = [p \in 0 .. 2 |-> p # 1]

\* C22: once the accumulator dist_1d_sqr exists, its entry is NaN exactly for
\* the points yielded so far, whatever rows were added and clusters folded
\* since, and no point is yielded a second time (a chosen index never had a
\* NaN entry).
C22_Sentinel ==
    dist_1d_sqr # NoArray =>
        /\ \A k \in Rows(n) :
               dist_1d_sqr[k] = NaN <=> (\E a \in 1 .. Len(yielded) : Point(yielded[a]) = k)
        /\ \A a, b \in 1 .. Len(yielded) : a # b => Point(yielded[a]) # Point(yielded[b])

\* C22 witness: after a cluster fold and a row addition two of three points
\* are marked and the third one is not.
C22_Witness ==
    /\ gen_pc = "in_loop"
    /\ n = 3
    /\ Len(yielded) = 2
    /\ bool_ar # NoArray
    /\ bool_ar[0]
    /\ \E k \in Rows(n) : dist_1d_sqr[k] # NaN

\* C23: in a greedy mode without randomness, the result of a call is a
\* prefix of the result of the call with the same arguments and a larger
\* f < 1.
C23_Prefix ==
    (first_call.given /\ Returned) =>
        /\ Length(first_call.ret) <= Length(ret)
        /\ \A k \in DOMAIN first_call.ret : ret[k] = first_call.ret[k]

\* C23 witness: the first call returned 2 and the second call 3 of 3
\* candidates, not in the order of idx.
C23_Witness ==
    /\ first_call.given
    /\ Returned
    /\ Length(first_call.ret) = 2
    /\ Length(ret) = 3
    /\ ret # idx

\* C24: with randomness = 0 uniform_idx yields, value by value, what it
\* yielded with randomness = None on the same arguments, whatever the random
\* draws are, and ends the same way.
C24_ZeroRandomness ==
    (entry = "uniform_idx" /\ first_call.given) =>
        /\ Len(yielded) <= Len(first_call.ret)
        /\ \A k \in 1 .. Len(yielded) : yielded[k] = first_call.ret[k]
        /\ pc \in {"finished", "raised"} =>
               (yielded = first_call.ret /\ raised = first_call.raised)

\* C24 witness: the generator with randomness = 0 has yielded all of three
\* points with a cluster size other than 1.
C24_Witness ==
    /\ entry = "uniform_idx"
    /\ first_call.given
    /\ arg_random
    /\ pc = "finished"
    /\ n = 3
    /\ Len(yielded) = 3
    /\ cluster_size # IntSize(1)

\* C25: with cluster_size = (k,) uniform_idx yields, value by value, what it
\* yielded with cluster_size = k on the same arguments (k >= 1, no
\* randomness).
C25_OneElementSequence ==
    (first_call.given /\ cluster_size.kind = "seq" /\ Len(cluster_size.seq) = 1) =>
        /\ Len(yielded) <= Len(first_call.ret)
        /\ \A k \in 1 .. Len(yielded) : yielded[k] = first_call.ret[k]
        /\ pc = "finished" => yielded = first_call.ret

\* C26: for every iterable of non-negative integers the computation of the
\* cluster start positions finishes.  It finishes only if every pass over the
\* sequence raises the running sum, and then np.fromiter has stored at most
\* n values per element of the sequence.
C26_ParseFinishes ==
    entry = "_parse_cluster_size" => taken <= n * Len(cluster_size.seq)

\* The number m of the last key of the run base_key1, base_key2, ... that is
\* in the mapping as it was passed.
ConsecutiveKeys ==
    CHOOSE m \in 0 .. MaxKeys + 1 :
        /\ \A k \in 1 .. m : Key(base_key, k) \in DOMAIN mapping_in
        /\ Key(base_key, m + 1) \notin DOMAIN mapping_in

\* The values of the keys 1 .. m, in order, that the filter accepts.
RECURSIVE AcceptedValues(_)
AcceptedValues(m) ==
    IF m = 0 THEN <<>>
    ELSE LET value == mapping_in[Key(base_key, m)]
         IN IF filter_func = "_return_True" \/ value < 0
            THEN Append(AcceptedValues(m - 1), value)
            ELSE AcceptedValues(m - 1)

\* C27: pop_and_concatenate returns the accepted values of the keys
\* base_key1 .. base_keym in that order, where m is the last key before the
\* first missing one; afterwards none of these keys is in the mapping,
\* whether its value was accepted or not, and every other entry, numbered
\* keys after a gap included, is as it was.
C27_PopAndConcatenate ==
    pop_pc = "returned" =>
        /\ pop_ret = AcceptedValues(ConsecutiveKeys)
        /\ DOMAIN mapping =
               (DOMAIN mapping_in) \ {Key(base_key, k) : k \in 1 .. ConsecutiveKeys}
        /\ \A key \in DOMAIN mapping : mapping[key] = mapping_in[key]

\* Two keys are popped, one value is rejected by the filter and removed all
\* the same, and a numbered key after a gap is left.
C27_Witness ==
    /\ pop_pc = "returned"
    /\ base_key = "job"
    /\ ConsecutiveKeys = 2
    /\ Len(pop_ret) = 1
    /\ "job4" \in DOMAIN mapping
    /\ "job1" \notin DOMAIN mapping
    /\ "job2" \notin DOMAIN mapping

\* C28: while a Molecule is opened with AsArray(mol, delete_atom='raise'),
\* a call of mol.delete_atom raises MoleculeError and deletes nothing.
C28_RaisesWhileOpen ==
    [][(/\ mol_kind = "Molecule"
        /\ delete_atom_arg = "raise"
        /\ as_pc = "entered"
        /\ as_pc' = "entered")
       => (atoms' = atoms /\ as_raised' = "MoleculeError")]_vars

\* C29: after to_db with status 'optimized' the column ('opt', '') is True
\* in the rows selected by index, in the frame and in what was exported; with
\* any other status the column is as it was.
C29_OptimizedSetsTrue ==
    to_db_pc = "returned" =>
        IF status = "optimized"
        THEN /\ \A r \in index : df[r] = TRUE
             /\ \A r \in DOMAIN exported.csv : exported.csv[r] = TRUE
        ELSE df = df_in

====
